---- MODULE Spec2Model ----
(***************************************************************************)
(* Query execution core: predicate compilation (predicate.rs), SELECT with *)
(* join and aggregation (select.rs) and DELETE (delete.rs).                *)
(*                                                                         *)
(* Values.  A column value is a record [i, s]: Int and Bool columns use i  *)
(* (Bool false = 0, true = 1, the order Rust gives bool), Char and VarChar *)
(* columns use s, the live bytes of the string as a sequence of byte       *)
(* codes.  A cell of a row is [nul, i, s]: the NULL bit of the column and  *)
(* the bytes stored in the slot, which are arbitrary when the bit is set.  *)
(***************************************************************************)
EXTENDS Integers, Sequences, FiniteSets, TLC

\* ---------------------------------------------------------------- bounds
\* Int32 column values range over -1..MaxIntVal
MaxIntVal == 1
\* strings stored in Char/VarChar columns have at most MaxStrLen bytes
MaxStrLen == 5
\* a table holds at most MaxRows rows
MaxRows == 2

\* ---------------------------------------------------------------- bytes
Chr == [a |-> 97, b |-> 98, c |-> 99, d |-> 100, x |-> 120,
        pct |-> 37, und |-> 95, dot |-> 46, star |-> 42, bsl |-> 92]

Min(m, n) == IF m < n THEN m ELSE n

\* ---------------------------------------------------------------- schema
\* Four tables; columns in declaration order.  index = TRUE: ci.index != !0.
\* A Date column holds its date as the number year * 10000 + month * 100 + day
\* in field i, which orders dates as NaiveDate does.
Tables == <<"t", "u", "w", "v">>

Cols(tbl) ==
  CASE tbl = "t" -> << [name |-> "a", ty |-> "Int",     index |-> TRUE],
                       [name |-> "b", ty |-> "Int",     index |-> FALSE],
                       [name |-> "c", ty |-> "Char",    index |-> TRUE],
                       [name |-> "d", ty |-> "Bool",    index |-> FALSE] >>
    [] tbl = "u" -> << [name |-> "x", ty |-> "Int",     index |-> FALSE],
                       [name |-> "c", ty |-> "VarChar", index |-> FALSE] >>
    [] tbl = "w" -> << [name |-> "y", ty |-> "Int",     index |-> FALSE],
                       [name |-> "c", ty |-> "Char",    index |-> FALSE] >>
    [] tbl = "v" -> << [name |-> "e", ty |-> "Date",    index |-> FALSE] >>
    [] OTHER     -> << >>

\* get_ci: position of the column named col in the table page, 0 when absent
get_ci(tbl, col) ==
  IF \E k \in 1..Len(Cols(tbl)) : Cols(tbl)[k].name = col
  THEN CHOOSE k \in 1..Len(Cols(tbl)) : Cols(tbl)[k].name = col
  ELSE 0

\* is_null: the NULL bit of column idx in the row's bitmap
is_null(row, idx) == row[idx].nul

\* ---------------------------------------------------------------- AST (ast.rs)
CmpOp == {"Lt", "Le", "Ge", "Gt", "Eq", "Ne"}

ColRef(table, col) == [table |-> table, col |-> col]
NoVal  == [i |-> 0, s |-> << >>]
LitNull    == [k |-> "Null", i |-> 0, s |-> << >>]
LitInt(v)  == [k |-> "Int",  i |-> v, s |-> << >>]
LitBool(v) == [k |-> "Bool", i |-> v, s |-> << >>]
LitStr(v)  == [k |-> "Str",  i |-> 0, s |-> v]
LitFloat(v) == [k |-> "Float", i |-> v, s |-> << >>]

AtomLit(lit)   == [k |-> "Lit", lit |-> lit, cr |-> ColRef("", "")]
AtomColRef(cr) == [k |-> "ColRef", lit |-> LitNull, cr |-> cr]

ExprCmp(op, l, r) == [k |-> "Cmp", op |-> op, l |-> l, r |-> r, null |-> FALSE, pat |-> << >>]
ExprNull(l, null) == [k |-> "Null", op |-> "Eq", l |-> l, r |-> AtomLit(LitNull), null |-> null, pat |-> << >>]
ExprLike(l, pat)  == [k |-> "Like", op |-> "Eq", l |-> l, r |-> AtomLit(LitNull), null |-> FALSE, pat |-> pat]

\* Lit::ty(): the bare type a literal reports in RecordLitTyMismatch
lhs_col(e) == e.l
\* rhs_col: Some(r) only for Cmp(_, _, Atom::ColRef(r))
has_rhs_col(e) == e.k = "Cmp" /\ e.r.k = "ColRef"
rhs_col(e) == e.r.cr

\* ---------------------------------------------------------------- comparisons
\* byte-wise lexicographic order of two strings (str's PartialOrd)
StrLt(p, q) ==
  \E n \in 0..Min(Len(p), Len(q)) :
     /\ \A k \in 1..n : p[k] = q[k]
     /\ \/ (n = Len(p) /\ n < Len(q))
        \/ (n < Len(p) /\ n < Len(q) /\ p[n + 1] < q[n + 1])

IsStrTy(ty) == ty \in {"Char", "VarChar"}

\* $l $op $r for the operator token tt, on two values of type ty
CmpVal(tt, ty, l, r) ==
  LET lt == IF IsStrTy(ty) THEN StrLt(l.s, r.s) ELSE l.i < r.i
      gt == IF IsStrTy(ty) THEN StrLt(r.s, l.s) ELSE r.i < l.i
      eq == IF IsStrTy(ty) THEN l.s = r.s ELSE l.i = r.i
  IN CASE tt = "<"  -> lt
       [] tt = "<=" -> lt \/ eq
       [] tt = ">=" -> gt \/ eq
       [] tt = ">"  -> gt
       [] tt = "==" -> eq
       [] tt = "!=" -> ~eq

\* what op means: v op w
OpHolds(op, ty, l, r) ==
  CmpVal(CASE op = "Lt" -> "<" [] op = "Le" -> "<=" [] op = "Ge" -> ">="
           [] op = "Gt" -> ">" [] op = "Eq" -> "==" [] op = "Ne" -> "!=", ty, l, r)

\* handle_op with the NULL flag of Ne and of the others exchanged
handle_op_flipped(op) ==
  [tt |-> "<", nullable |-> (op # "Ne")]

\* handle_op!: the operator token and the NULL result each CmpOp expands to
handle_op(op) ==
  CASE op = "Lt" -> [tt |-> "<", nullable |-> FALSE]
    [] op = "Le" -> [tt |-> "<", nullable |-> FALSE]
    [] op = "Ge" -> [tt |-> "<", nullable |-> FALSE]
    [] op = "Gt" -> [tt |-> "<", nullable |-> FALSE]
    [] op = "Eq" -> [tt |-> "<", nullable |-> FALSE]
    [] op = "Ne" -> [tt |-> "<", nullable |-> TRUE]

\* ---------------------------------------------------------------- LIKE (predicate.rs 77-87)
\* the bytes regex::escape puts a backslash before: \ . + * ? ( ) | [ ] { } ^ $ # & - ~
RegexMeta == {92, 46, 43, 42, 63, 40, 41, 124, 91, 93, 123, 125, 94, 36, 35, 38, 45, 126}

RECURSIVE regex_escape(_)
regex_escape(pat) ==
  IF pat = << >> THEN << >>
  ELSE (IF Head(pat) \in RegexMeta THEN <<Chr.bsl, Head(pat)>> ELSE <<Head(pat)>>)
       \o regex_escape(Tail(pat))

\* str::replace(from, to) for a one-byte from
RECURSIVE replace(_, _, _)
replace(str, from, to) ==
  IF str = << >> THEN << >>
  ELSE (IF Head(str) = from THEN to ELSE <<Head(str)>>) \o replace(Tail(str), from, to)

\* the string handed to Regex::new
like_regex_src(pat) ==
  replace(replace(regex_escape(pat), Chr.pct, <<Chr.dot, Chr.star>>), Chr.und, <<Chr.dot>>)

\* Regex::new on such a string: a sequence of atoms (an escaped or plain literal
\* byte, or '.'), each optionally followed by '*'
RECURSIVE regex_parse(_)
regex_parse(src) ==
  IF src = << >> THEN << >>
  ELSE LET esc  == Head(src) = Chr.bsl /\ Len(src) >= 2
           atom == IF esc THEN [any |-> FALSE, c |-> src[2]]
                   ELSE IF Head(src) = Chr.dot THEN [any |-> TRUE, c |-> 0]
                   ELSE [any |-> FALSE, c |-> Head(src)]
           used == IF esc THEN 2 ELSE 1
           star == Len(src) > used /\ src[used + 1] = Chr.star
           rest == SubSeq(src, used + (IF star THEN 2 ELSE 1), Len(src))
       IN <<[any |-> atom.any, c |-> atom.c, star |-> star]>> \o regex_parse(rest)

\* '.' matches any byte but the line feed; a literal matches itself
AtomMatches(tok, ch) == IF tok.any THEN ch # 10 ELSE ch = tok.c

\* the tokens from k on match a run of str that starts at position i
RECURSIVE MatchFrom(_, _, _, _)
MatchFrom(re, k, str, i) ==
  IF k > Len(re) THEN TRUE
  ELSE IF re[k].star
       THEN \E j \in i..(Len(str) + 1) :
               /\ \A m \in i..(j - 1) : AtomMatches(re[k], str[m])
               /\ MatchFrom(re, k + 1, str, j)
       ELSE /\ i <= Len(str)
            /\ AtomMatches(re[k], str[i])
            /\ MatchFrom(re, k + 1, str, i + 1)

\* Regex::is_match: an unanchored search, a match may start anywhere in str
is_match(re, str) == \E i \in 1..(Len(str) + 1) : MatchFrom(re, 1, str, i)

\* SQL LIKE on the whole of str: '%' any run, '_' exactly one character
RECURSIVE LikeFull(_, _, _, _)
LikeFull(pat, k, str, i) ==
  IF k > Len(pat) THEN i = Len(str) + 1
  ELSE IF pat[k] = Chr.pct
       THEN \E j \in i..(Len(str) + 1) : LikeFull(pat, k + 1, str, j)
       ELSE /\ i <= Len(str)
            /\ (pat[k] = Chr.und \/ pat[k] = str[i])
            /\ LikeFull(pat, k + 1, str, i + 1)

\* ---------------------------------------------------------------- dates (predicate.rs 43-46)
\* NaiveDate::parse_from_str(v, "%Y-%m-%d"): three numeric items separated by
\* the literal '-'.  A numeric item skips leading white space and takes the
\* longest run of digits up to its width (4 for %Y, 2 for %m and %d); %Y also
\* takes a sign, and then digits without limit.
IsDigit(ch) == ch \in 48..57
WhiteSpace == {9, 10, 11, 12, 13, 32}

RECURSIVE skip_white(_, _)
skip_white(str, i) ==
  IF i <= Len(str) /\ str[i] \in WhiteSpace THEN skip_white(str, i + 1) ELSE i

\* scan::number: how many digits are taken from position i, at most max
RECURSIVE scan_digits(_, _, _)
scan_digits(str, i, max) ==
  IF max > 0 /\ i <= Len(str) /\ IsDigit(str[i])
  THEN 1 + scan_digits(str, i + 1, max - 1) ELSE 0

\* the number the n digits from position i spell
RECURSIVE digits_value(_, _, _)
digits_value(str, i, n) ==
  IF n = 0 THEN 0 ELSE digits_value(str, i, n - 1) * 10 + (str[i + n - 1] - 48)

\* the digits of a numeric item: n digits found at position k
num_digits(str, k, n, neg) ==
  [ok |-> n >= 1,
   v |-> IF neg THEN 0 - digits_value(str, k, n) ELSE digits_value(str, k, n),
   next |-> k + n]

\* a numeric item whose white space is skipped: an explicit sign lifts the width
num_at(str, j, width, signed) ==
  IF signed /\ j <= Len(str) /\ str[j] \in {43, 45}
  THEN num_digits(str, j + 1, scan_digits(str, j + 1, Len(str)), str[j] = 45)
  ELSE num_digits(str, j, scan_digits(str, j, width), FALSE)

\* one numeric item read at position i: [ok, v, next]
parse_numeric(str, i, width, signed) == num_at(str, skip_white(str, i), width, signed)

\* the days of month m of year y in the proleptic Gregorian calendar
days_in_month(y, m) ==
  IF m = 2 THEN (IF y % 4 = 0 /\ (y % 100 # 0 \/ y % 400 = 0) THEN 29 ELSE 28)
  ELSE IF m \in {4, 6, 9, 11} THEN 30 ELSE 31

\* NaiveDate::from_ymd_opt is Some
valid_ymd(y, m, d) ==
  /\ y \in (0 - 262142)..262142
  /\ m \in 1..12
  /\ d \in 1..days_in_month(y, m)

NoDate == [ok |-> FALSE, date |-> 0]
\* the literal '-' stands at position i
dash_at(str, i) == i <= Len(str) /\ str[i] = 45

\* after %Y-%m-%d is read: trailing bytes or an impossible date make it fail
parse_end(str, y, m, d) ==
  IF d.ok /\ d.next = Len(str) + 1 /\ valid_ymd(y.v, m.v, d.v)
  THEN [ok |-> TRUE, date |-> y.v * 10000 + m.v * 100 + d.v]
  ELSE NoDate

\* after %Y-%m is read
parse_day(str, y, m) ==
  IF m.ok /\ dash_at(str, m.next)
  THEN parse_end(str, y, m, parse_numeric(str, m.next + 1, 2, FALSE))
  ELSE NoDate

\* after %Y is read
parse_month(str, y) ==
  IF y.ok /\ dash_at(str, y.next)
  THEN parse_day(str, y, parse_numeric(str, y.next + 1, 2, FALSE))
  ELSE NoDate

\* parse_from_str: [ok, date]
parse_from_str(str) == parse_month(str, parse_numeric(str, 1, 4, TRUE))

\* ---------------------------------------------------------------- compiled predicates
NoPred == [kind |-> "none", tt |-> "<", nullable |-> FALSE, l_idx |-> 0, r_idx |-> 0,
           ty |-> "Int", lit |-> NoVal, re |-> << >>]
Ok(p)    == [err |-> "", p |-> p]
Err(err) == [err |-> err, p |-> NoPred]

\* the cmp! closure: the operator and NULL result chosen by handle_op!
CmpPred(kind, op, l_idx, r_idx, ty, lit) ==
  [kind |-> kind, tt |-> handle_op(op).tt, nullable |-> handle_op(op).nullable,
   l_idx |-> l_idx, r_idx |-> r_idx, ty |-> ty, lit |-> lit, re |-> << >>]

\* the column-type pairs a column/column comparison accepts
ColTysMatch(lty, rty) ==
  \/ (lty = rty /\ lty \in {"Int", "Bool", "Float", "Date"})
  \/ (IsStrTy(lty) /\ IsStrTy(rty))

\* the (column type, literal) pairs a column/literal comparison accepts
LitTyMatch(lty, lit) ==
  \/ (lty = "Int" /\ lit.k = "Int")
  \/ (lty = "Bool" /\ lit.k = "Bool")
  \/ (lty = "Float" /\ lit.k = "Float")
  \/ (IsStrTy(lty) /\ lit.k = "Str")

\* the (Date, Lit::Str) arm: the closure compares with the parsed date
date_predicate(op, l_idx, parsed) ==
  IF parsed.ok
  THEN Ok(CmpPred("lit", op, l_idx, 0, "Date", [i |-> parsed.date, s |-> << >>]))
  ELSE Err("InsertInvalidDate")

\* one_predicate(e, tp): both columns are looked up in tp, ColRef::table is not checked
one_predicate(e, tp) ==
  LET l_idx == get_ci(tp, lhs_col(e).col) IN
  IF l_idx = 0 THEN Err("NoSuchCol")
  ELSE LET lty == Cols(tp)[l_idx].ty IN
    CASE e.k = "Cmp" /\ e.r.k = "Lit" ->
           IF e.r.lit.k = "Null" THEN Err("CmpOnNull")
           ELSE IF LitTyMatch(lty, e.r.lit)
                THEN Ok(CmpPred("lit", e.op, l_idx, 0, lty, [i |-> e.r.lit.i, s |-> e.r.lit.s]))
           ELSE IF lty = "Date" /\ e.r.lit.k = "Str"
                THEN date_predicate(e.op, l_idx, parse_from_str(e.r.lit.s))
                ELSE Err("RecordLitTyMismatch")
      [] e.k = "Cmp" /\ e.r.k = "ColRef" ->
           LET r_idx == get_ci(tp, e.r.cr.col) IN
           IF r_idx = 0 THEN Err("NoSuchCol")
           ELSE IF ColTysMatch(lty, Cols(tp)[r_idx].ty)
                THEN Ok(CmpPred("col", e.op, l_idx, r_idx, lty, NoVal))
                ELSE Err("RecordTyMismatch")
      [] e.k = "Null" ->
           Ok([NoPred EXCEPT !.kind = IF e.null THEN "null" ELSE "notnull", !.l_idx = l_idx])
      [] e.k = "Like" ->
           IF ~IsStrTy(lty) THEN Err("InvalidLikeTy")
           ELSE Ok([NoPred EXCEPT !.kind = "like", !.l_idx = l_idx, !.ty = lty,
                                  !.re = regex_parse(like_regex_src(e.pat))])

\* cross_predicate(op, col, tp): col.0 is looked up in tp.0, col.1 in tp.1
cross_predicate(op, lcol, rcol, ltp, rtp) ==
  LET l_idx == get_ci(ltp, lcol)
      r_idx == get_ci(rtp, rcol)
  IN IF l_idx = 0 \/ r_idx = 0 THEN Err("NoSuchCol")
     ELSE IF ColTysMatch(Cols(ltp)[l_idx].ty, Cols(rtp)[r_idx].ty)
          THEN Ok(CmpPred("cross", op, l_idx, r_idx, Cols(ltp)[l_idx].ty, NoVal))
          ELSE Err("RecordTyMismatch")

CellVal(cell) == [i |-> cell.i, s |-> cell.s]

\* calling a closure made by one_predicate on a row
ApplyOne(p, row) ==
  CASE p.kind = "lit" ->
         IF is_null(row, p.l_idx) THEN p.nullable
         ELSE CmpVal(p.tt, p.ty, CellVal(row[p.l_idx]), p.lit)
    [] p.kind = "col" ->
         IF is_null(row, p.l_idx) THEN p.nullable
         ELSE IF is_null(row, p.r_idx) THEN p.nullable
         ELSE CmpVal(p.tt, p.ty, CellVal(row[p.l_idx]), CellVal(row[p.r_idx]))
    [] p.kind = "null"    -> is_null(row, p.l_idx)
    [] p.kind = "notnull" -> ~is_null(row, p.l_idx)
    [] p.kind = "like" ->
         ~is_null(row, p.l_idx) /\ is_match(p.re, row[p.l_idx].s)

\* calling a closure made by cross_predicate on a pair of rows
ApplyCross(p, lrow, rrow) ==
  IF is_null(lrow, p.l_idx) THEN p.nullable
  ELSE IF is_null(rrow, p.r_idx) THEN p.nullable
  ELSE CmpVal(p.tt, p.ty, CellVal(lrow[p.l_idx]), CellVal(rrow[p.r_idx]))

\* and(ps): every predicate of the list holds (true for the empty list)
and_one(ps, row) == \A k \in 1..Len(ps) : ApplyOne(ps[k], row)
and_cross(ps, lrow, rrow) == \A k \in 1..Len(ps) : ApplyCross(ps[k], lrow, rrow)

\* ---------------------------------------------------------------- heap and index
\* A table's heap is a sequence of slots [used, row]; a row pointer / Rid is the
\* position of the slot.  The index of column col of table tbl is a set of
\* entries [key, rid].
Slot(used, row) == [used |-> used, row |-> row]

\* the entries an index of column idx holds for the occupied rows of slots:
\* one per occupied row whose column is not NULL
IndexOf(slots, idx) ==
  {[key |-> CellVal(slots[rid].row[idx]), rid |-> rid] :
     rid \in {r \in 1..Len(slots) : slots[r].used /\ ~slots[r].row[idx].nul}}

\* heap scan: the occupied slots in ascending slot order
RECURSIVE HeapScan(_, _)
HeapScan(slots, n) ==
  IF n = 0 THEN << >>
  ELSE HeapScan(slots, n - 1) \o (IF slots[n].used THEN <<n>> ELSE << >>)

\* the first clause an index can serve: Cmp(op, L, lit) with L indexed and
\* op one of Lt, Le, Ge, Gt, Eq; 0 when there is none
IndexClause(tbl, where) ==
  LET ok(k) == /\ where[k].k = "Cmp" /\ where[k].r.k = "Lit"
               /\ where[k].op # "Ne"
               /\ get_ci(tbl, where[k].l.col) # 0
               /\ Cols(tbl)[get_ci(tbl, where[k].l.col)].index
  IN IF \E k \in 1..Len(where) : ok(k)
     THEN CHOOSE k \in 1..Len(where) : ok(k) /\ \A m \in 1..(k - 1) : ~ok(m)
     ELSE 0

\* index scan: the Rids of the entries whose key satisfies the clause, in
\* index order (key, then Rid)
IndexScan(tbl, e, entries) ==
  LET idx  == get_ci(tbl, e.l.col)
      ty   == Cols(tbl)[idx].ty
      lit  == [i |-> e.r.lit.i, s |-> e.r.lit.s]
      hits == {en \in entries : OpHolds(e.op, ty, en.key, lit)}
      before(p, q) == \/ CmpVal("<", ty, p.key, q.key)
                      \/ (p.key = q.key /\ p.rid < q.rid)
      rank(h) == Cardinality({g \in hits : before(g, h)})
  IN [k \in 1..Cardinality(hits) |-> (CHOOSE h \in hits : rank(h) = k - 1).rid]

\* filter(where_, tp, db, pred, visitor): the Rids handed to the visitor, in
\* visiting order: candidates from the index or the heap, then the predicate
filter(tbl, where, preds, slots, idxs) ==
  LET ic   == IndexClause(tbl, where)
      cand == IF ic = 0 THEN HeapScan(slots, Len(slots))
              ELSE IndexScan(tbl, where[ic], idxs[get_ci(tbl, where[ic].l.col)])
      pass(rid) == and_one(preds, slots[rid].row)
  IN SelectSeq(cand, pass)

\* ---------------------------------------------------------------- SELECT (select.rs)
Agg(op, col) == [op |-> op, col |-> col]
SelectStmt(star, ops, tables, where) ==
  [star |-> star, ops |-> ops, tables |-> tables, where |-> where]
NoStmt == SelectStmt(TRUE, << >>, << >>, << >>)

\* db.get_tp(t) succeeds
TableExists(tbl) == \E k \in 1..Len(Tables) : Tables[k] = tbl

\* IndexMap::get_full: position of tbl in the FROM list, 0 when absent
TblIdx(tables, tbl) ==
  IF \E k \in 1..Len(tables) : tables[k] = tbl
  THEN CHOOSE k \in 1..Len(tables) : tables[k] = tbl
  ELSE 0

\* ctx.cols where a further declaration of a name whose entry is None inserts it anew
RECURSIVE CtxCols_reinsert(_, _, _)
CtxCols_reinsert(tables, n, col) ==
  IF n = 0 THEN 0
  ELSE LET prev == CtxCols_reinsert(tables, n - 1, col)
       IN IF get_ci(tables[n], col) = 0 THEN prev
          ELSE IF prev <= 0 THEN n ELSE 0 - 1

\* ctx.cols after the first n tables: 0 = no entry, -1 = entry None, k = entry
\* Some(table k).  An existing entry is made None, a missing one inserted.
RECURSIVE CtxCols(_, _, _)
CtxCols(tables, n, col) ==
  IF n = 0 THEN 0
  ELSE LET prev == CtxCols(tables, n - 1, col)
       IN IF get_ci(tables[n], col) = 0 THEN prev
          ELSE IF prev = 0 THEN n ELSE 0 - 1

Resolved(err, tbl, idx) == [err |-> err, tbl |-> tbl, idx |-> idx]

\* one_where(cr, ctx): the table position and column a ColRef resolves to
one_where(cr, tables) ==
  IF cr.table # ""
  THEN LET tbl_idx == TblIdx(tables, cr.table) IN
       IF tbl_idx = 0 THEN Resolved("NoSuchTable", 0, 0)
       ELSE IF get_ci(cr.table, cr.col) = 0 THEN Resolved("NoSuchCol", 0, 0)
       ELSE Resolved("", tbl_idx, get_ci(cr.table, cr.col))
  ELSE LET ent == CtxCols(tables, Len(tables), cr.col) IN
       IF ent = 0 THEN Resolved("NoSuchCol", 0, 0)
       ELSE IF ent < 0 THEN Resolved("AmbiguousCol", 0, 0)
       ELSE Resolved("", ent, get_ci(tables[ent], cr.col))

\* Col: the aggregation op ("None" when absent), the table position and the
\* column index of ci (both 0 for count(*), whose ci is None)
Col(op, tbl, idx) == [op |-> op, tbl |-> tbl, idx |-> idx]

\* the MixedSelect test with any() alone
is_mixed_any(ops) == \E k \in 1..Len(ops) : ops[k].op # "None"

\* ops.iter().any(has op) != ops.iter().all(has op)
is_mixed(ops) ==
  (\E k \in 1..Len(ops) : ops[k].op # "None") # (\A k \in 1..Len(ops) : ops[k].op # "None")

\* the loop of mk_tbls over the first n select items: [err, tbls]
RECURSIVE mk_tbls_loop(_, _, _)
mk_tbls_loop(ops, n, tables) ==
  IF n = 0 THEN [err |-> "", tbls |-> [k \in 1..Len(tables) |-> << >>]]
  ELSE LET prev == mk_tbls_loop(ops, n - 1, tables)
           ag   == ops[n]
           w    == one_where(ag.col, tables)
       IN IF prev.err # "" THEN prev
          ELSE IF ag.op = "CountAll"
          THEN [prev EXCEPT !.tbls[1] = Append(@, Col(ag.op, 0, 0))]
          ELSE IF w.err # "" THEN [prev EXCEPT !.err = w.err]
          ELSE IF ag.op \in {"Avg", "Sum"}
                  /\ Cols(tables[w.tbl])[w.idx].ty \notin {"Int", "Float", "Bool"}
          THEN [prev EXCEPT !.err = "InvalidAgg"]
          ELSE [prev EXCEPT !.tbls[w.tbl] = Append(@, Col(ag.op, w.tbl, w.idx))]

\* mk_tbls(ops, ctx): per table of the FROM list, the result columns it supplies
mk_tbls(stmt) ==
  IF stmt.star
  THEN [err |-> "",
        tbls |-> [k \in 1..Len(stmt.tables) |->
                    [c \in 1..Len(Cols(stmt.tables[k])) |-> Col("None", k, c)]]]
  ELSE IF is_mixed(stmt.ops) THEN [err |-> "MixedSelect", tbls |-> << >>]
  ELSE mk_tbls_loop(stmt.ops, Len(stmt.ops), stmt.tables)

\* tbls.iter().flatten()
RECURSIVE Flatten(_)
Flatten(seqs) == IF seqs = << >> THEN << >> ELSE Head(seqs) \o Flatten(Tail(seqs))

\* the WHERE loop of select over the first n expressions:
\* [err, one_preds, one_wheres (per table), cross (k*k slots, slot l*k+r at (l-1)*k+r)]
RECURSIVE where_loop(_, _, _)
where_loop(where, n, tables) ==
  LET k == Len(tables) IN
  IF n = 0 THEN [err |-> "", one_preds |-> [m \in 1..k |-> << >>],
                 one_wheres |-> [m \in 1..k |-> << >>],
                 cross |-> [m \in 1..(k * k) |-> << >>]]
  ELSE LET prev == where_loop(where, n - 1, tables)
           e    == where[n]
           l    == one_where(lhs_col(e), tables)
           r    == IF has_rhs_col(e) THEN one_where(rhs_col(e), tables)
                   ELSE Resolved("", 0, 0)
           isx  == has_rhs_col(e) /\ r.tbl # l.tbl
           cp   == cross_predicate(e.op, Cols(tables[l.tbl])[l.idx].name,
                                   Cols(tables[r.tbl])[r.idx].name,
                                   tables[l.tbl], tables[r.tbl])
           op   == one_predicate(e, tables[l.tbl])
       IN IF prev.err # "" THEN prev
          ELSE IF l.err # "" THEN [prev EXCEPT !.err = l.err]
          ELSE IF r.err # "" THEN [prev EXCEPT !.err = r.err]
          ELSE IF isx
          THEN IF cp.err # "" THEN [prev EXCEPT !.err = cp.err]
               ELSE [prev EXCEPT !.cross[(l.tbl - 1) * k + r.tbl] = Append(@, cp.p)]
          ELSE IF op.err # "" THEN [prev EXCEPT !.err = op.err]
               ELSE [prev EXCEPT !.one_preds[l.tbl] = Append(@, op.p),
                                 !.one_wheres[l.tbl] = Append(@, e)]

\* the acceptance test that looks at cross[l*k + r] only
JoinAccept_one_way(cross, tables, slots, old_row, r_idx, r) ==
  \A l_idx \in 1..(r_idx - 1) :
     and_cross(cross[(l_idx - 1) * Len(tables) + r_idx],
               slots[tables[l_idx]][old_row[l_idx]].row, slots[tables[r_idx]][r].row)

\* ok: row r of table r_idx joins the tuple old_row of the tables before it
JoinAccept(cross, tables, slots, old_row, r_idx, r) ==
  \A l_idx \in 1..(r_idx - 1) :
     LET lrow == slots[tables[l_idx]][old_row[l_idx]].row
         rrow == slots[tables[r_idx]][r].row
     IN /\ and_cross(cross[(l_idx - 1) * Len(tables) + r_idx], lrow, rrow)
        /\ and_cross(cross[(r_idx - 1) * Len(tables) + l_idx], rrow, lrow)

\* the inner loop over rs for one old_row: the tuples pushed to new_final_
RECURSIVE JoinRow(_, _, _, _, _, _, _)
JoinRow(cross, tables, slots, old_row, r_idx, rs, n) ==
  IF n = 0 THEN << >>
  ELSE JoinRow(cross, tables, slots, old_row, r_idx, rs, n - 1)
       \o (IF JoinAccept(cross, tables, slots, old_row, r_idx, rs[n])
           THEN << [old_row EXCEPT ![r_idx] = rs[n]] >> ELSE << >>)

\* the loop over old_idx: new_final_ after the first n tuples of final_
RECURSIVE JoinStep(_, _, _, _, _, _, _)
JoinStep(cross, tables, slots, final, r_idx, rs, n) ==
  IF n = 0 THEN << >>
  ELSE JoinStep(cross, tables, slots, final, r_idx, rs, n - 1)
       \o JoinRow(cross, tables, slots, final[n], r_idx, rs, Len(rs))

\* final_ after the tables up to r_idx are joined; a tuple holds one Rid per
\* table, 0 where nothing is written yet
RECURSIVE Join(_, _, _, _, _)
Join(cross, tables, slots, one_results, r_idx) ==
  IF r_idx = 1
  THEN [n \in 1..Len(one_results[1]) |->
          [m \in 1..Len(tables) |-> IF m = 1 THEN one_results[1][n] ELSE 0]]
  ELSE LET final == Join(cross, tables, slots, one_results, r_idx - 1)
       IN JoinStep(cross, tables, slots, final, r_idx, one_results[r_idx], Len(final))

\* the first error of the loop over s.tables: NoSuchTable, DupTable or ""
RECURSIVE tables_loop(_, _)
tables_loop(tables, n) ==
  IF n = 0 THEN ""
  ELSE LET prev == tables_loop(tables, n - 1) IN
       IF prev # "" THEN prev
       ELSE IF ~TableExists(tables[n]) THEN "NoSuchTable"
       ELSE IF \E m \in 1..(n - 1) : tables[m] = tables[n] THEN "DupTable"
       ELSE ""

\* LitExt: Null, Int, Bool, Str, or F64 holding the quotient i / den
LitExt(k, i, s, den) == [k |-> k, i |-> i, s |-> s, den |-> den]
ExtNull == LitExt("Null", 0, << >>, 1)

\* ptr2lit(data, col) on the row data points to
ptr2lit(row, ty, idx) ==
  IF is_null(row, idx) THEN ExtNull
  ELSE CASE ty = "Int"  -> LitExt("Int", row[idx].i, << >>, 1)
         [] ty = "Bool" -> LitExt("Bool", row[idx].i, << >>, 1)
         [] ty = "Date" -> LitExt("Date", row[idx].i, << >>, 1)
         [] OTHER       -> LitExt("Str", 0, row[idx].s, 1)

\* the Avg | Sum loop with notnull_cnt counting every row
RECURSIVE sum_loop_all_rows(_, _, _)
sum_loop_all_rows(rows, n, idx) ==
  IF n = 0 THEN [sum |-> 0, notnull_cnt |-> 0]
  ELSE LET prev == sum_loop_all_rows(rows, n - 1, idx) IN
       IF ~is_null(rows[n], idx)
       THEN [sum |-> prev.sum + rows[n][idx].i, notnull_cnt |-> prev.notnull_cnt + 1]
       ELSE [sum |-> prev.sum, notnull_cnt |-> prev.notnull_cnt + 1]

\* the Avg | Sum loop over the first n rows: sum and notnull_cnt
RECURSIVE sum_loop(_, _, _)
sum_loop(rows, n, idx) ==
  IF n = 0 THEN [sum |-> 0, notnull_cnt |-> 0]
  ELSE LET prev == sum_loop(rows, n - 1, idx) IN
       IF ~is_null(rows[n], idx)
       THEN [sum |-> prev.sum + rows[n][idx].i, notnull_cnt |-> prev.notnull_cnt + 1]
       ELSE prev

\* Count with the NULL test left out
count_loop_all_rows(rows, idx) == Len(rows)

\* Count: the rows whose column idx is not NULL
count_loop(rows, idx) == Cardinality({n \in 1..Len(rows) : ~is_null(rows[n], idx)})

\* Min | Max over the non-NULL values of the column
min_max(op, rows, ty, idx) ==
  LET nn == {n \in 1..Len(rows) : ~is_null(rows[n], idx)}
      lt(m, n) == CmpVal("<", ty, CellVal(rows[m][idx]), CellVal(rows[n][idx]))
  IN IF nn = {} THEN ExtNull
     ELSE IF op = "Max"
          THEN ptr2lit(rows[CHOOSE n \in nn : \A m \in nn : ~lt(n, m)], ty, idx)
          ELSE ptr2lit(rows[CHOOSE n \in nn : \A m \in nn : ~lt(m, n)], ty, idx)

\* the cell one aggregated column yields; rows are the rows of its table in the
\* tuples of data, result_num their number
agg_cell(col, ty, rows, result_num) ==
  CASE col.op \in {"Avg", "Sum"} ->
         LET acc == sum_loop(rows, Len(rows), col.idx) IN
         IF acc.notnull_cnt = 0 THEN ExtNull
         ELSE LitExt("F64", acc.sum, << >>, IF col.op = "Avg" THEN acc.notnull_cnt ELSE 1)
    [] col.op \in {"Min", "Max"} -> min_max(col.op, rows, ty, col.idx)
    [] col.op = "Count" -> LitExt("Int", count_loop(rows, col.idx), << >>, 1)
    [] col.op = "CountAll" -> LitExt("Int", result_num, << >>, 1)

\* the columns of tbls with the position of the table that supplies each
\* (tbls.iter().enumerate().flat_map)
RECURSIVE FlattenPos(_, _)
FlattenPos(tbls, n) ==
  IF n = 0 THEN << >>
  ELSE FlattenPos(tbls, n - 1) \o [c \in 1..Len(tbls[n]) |-> [pos |-> n, col |-> tbls[n][c]]]

\* SelectResult::new(tbls, data): cols and the flat row-major data
SelectResult_new(tbls, tables, slots, data) ==
  LET pc         == FlattenPos(tbls, Len(tbls))
      result_num == Len(data)
      has_agg    == \E c \in 1..Len(pc) : pc[c].col.op # "None"
      rowsOf(pos) == [n \in 1..result_num |-> slots[tables[pos]][data[n][pos]].row]
      tyOf(c)    == IF pc[c].col.idx = 0 THEN "Int"
                    ELSE Cols(tables[pc[c].pos])[pc[c].col.idx].ty
      row        == Len(pc)
  IN [cols |-> [c \in 1..Len(pc) |-> pc[c].col],
      data |-> IF has_agg
               THEN [c \in 1..Len(pc) |->
                       agg_cell(pc[c].col, tyOf(c), rowsOf(pc[c].pos), result_num)]
               ELSE [m \in 1..(result_num * row) |->
                       LET i == (m - 1) \div row
                           j == ((m - 1) % row) + 1
                       IN ptr2lit(slots[tables[pc[j].pos]][data[i + 1][pc[j].pos]].row,
                                  tyOf(j), pc[j].col.idx)]]

SelErr(err) == [err |-> err, cols |-> << >>, data |-> << >>, final |-> << >>,
                one_results |-> << >>, cross |-> << >>]

\* select(s, db)
select(stmt, slots, idxs) ==
  LET tables == stmt.tables
      terr   == tables_loop(tables, Len(tables))
      mk     == mk_tbls(stmt)
      wh     == where_loop(stmt.where, Len(stmt.where), tables)
      one_results == [k \in 1..Len(tables) |->
                        filter(tables[k], wh.one_wheres[k], wh.one_preds[k],
                               slots[tables[k]], idxs[tables[k]])]
      final  == Join(wh.cross, tables, slots, one_results, Len(tables))
      res    == SelectResult_new(mk.tbls, tables, slots, final)
  IN IF terr # "" THEN SelErr(terr)
     ELSE IF mk.err # "" THEN SelErr(mk.err)
     ELSE IF wh.err # "" THEN SelErr(wh.err)
     ELSE [err |-> "", cols |-> res.cols, data |-> res.data, final |-> final,
           one_results |-> one_results, cross |-> wh.cross]

\* ---------------------------------------------------------------- DELETE (delete.rs)
DeleteStmt(table, where) == [table |-> table, where |-> where]

\* db.has_foreign_link_to: w is the target of a foreign key of u
has_foreign_link_to(tbl) == tbl = "w"

\* predicate::one_where(where_, table, tp): the expressions compiled in order,
\* the first error returned: [err, preds]
RECURSIVE compile_where(_, _, _)
compile_where(where, n, tbl) ==
  IF n = 0 THEN [err |-> "", preds |-> << >>]
  ELSE LET prev == compile_where(where, n - 1, tbl)
           cp   == one_predicate(where[n], tbl)
       IN IF prev.err # "" THEN prev
          ELSE IF cp.err # "" THEN [prev EXCEPT !.err = cp.err]
          ELSE [prev EXCEPT !.preds = Append(@, cp.p)]

\* the candidates filter visits, in visiting order
filter_cand(tbl, where, slots, idxs) ==
  LET ic == IndexClause(tbl, where)
  IN IF ic = 0 THEN HeapScan(slots, Len(slots))
     ELSE IndexScan(tbl, where[ic], idxs[get_ci(tbl, where[ic].l.col)])

\* Index::delete(key, rid)
index_delete(entries, key, rid) == entries \ {[key |-> key, rid |-> rid]}

\* the body of the loop over del with the NULL test and the deletion left out
delete_entry_never(entries, row, idx, rid) == entries

\* the body of the loop over del for one indexed column: a NULL item is not
\* deleted from the index
delete_entry(entries, row, idx, rid) ==
  IF ~is_null(row, idx) THEN index_delete(entries, CellVal(row[idx]), rid) ELSE entries

\* the first column after idx whose ci.index is set, 0 when none
next_indexed(tbl, idx) ==
  IF \E c \in (idx + 1)..Len(Cols(tbl)) : Cols(tbl)[c].index
  THEN CHOOSE c \in (idx + 1)..Len(Cols(tbl)) :
         Cols(tbl)[c].index /\ \A m \in (idx + 1)..(c - 1) : ~Cols(tbl)[m].index
  ELSE 0

\* the order of delete's steps with the deallocation loop put before the index loop
delete_phase_after_dealloc_first(phase) ==
  CASE phase = "get_ti" -> "fk" [] phase = "fk" -> "compile" [] phase = "compile" -> "filter"
    [] phase = "filter" -> "scan"
    [] phase = "scan" -> "dealloc" [] phase = "dealloc" -> "index" [] OTHER -> "done"

\* the order of delete's steps with the foreign-link test put after one_where
delete_phase_after_compile_first(phase) ==
  CASE phase = "get_ti" -> "compile" [] phase = "compile" -> "fk" [] phase = "fk" -> "filter"
    [] phase = "filter" -> "scan"
    [] phase = "scan" -> "index" [] phase = "index" -> "dealloc" [] OTHER -> "done"

\* the order of delete's steps with one_where put after the loops
delete_phase_after_compile_last(phase) ==
  CASE phase = "get_ti" -> "fk" [] phase = "fk" -> "filter"
    [] phase = "filter" -> "scan"
    [] phase = "scan" -> "index" [] phase = "index" -> "dealloc"
    [] phase = "dealloc" -> "compile" [] OTHER -> "done"

\* the order of delete's steps: get_ti (line 10), the foreign-link test (11),
\* get_tp and one_where (12-13), filter (15: the choice of candidates, then the
\* scan), the index deletions (16-30), the deallocations (31)
delete_phase_after(phase) ==
  CASE phase = "get_ti" -> "fk" [] phase = "fk" -> "compile" [] phase = "compile" -> "filter"
    [] phase = "filter" -> "scan"
    [] phase = "scan" -> "index" [] phase = "index" -> "dealloc" [] OTHER -> "done"

\* db.deallocate_data_slot: the occupied bit is cleared, the bytes stay
deallocate_data_slot(slots, rid) == [slots EXCEPT ![rid].used = FALSE]

\* ---------------------------------------------------------------- inputs
IntVals == (0 - 1)..MaxIntVal
BoolVals == {0, 1}

\* all strings over alphabet of length at most n
RECURSIVE StrsUpTo(_, _)
StrsUpTo(alphabet, n) ==
  IF n = 0 THEN {<< >>}
  ELSE LET shorter == StrsUpTo(alphabet, n - 1)
       IN shorter \cup {Append(str, ch) : str \in shorter, ch \in alphabet}

CmpStrs == {<< >>, <<Chr.a>>, <<Chr.a, Chr.b>>, <<Chr.b>>}
LikeStrs == StrsUpTo({Chr.a, Chr.b, Chr.d}, MaxStrLen)

\* the cells a column of type ty can hold, strings drawn from strs; a NULL cell
\* keeps whatever bytes the slot has
Cells(ty, strs) ==
  CASE ty = "Int"  -> {[nul |-> n, i |-> v, s |-> << >>] : n \in BOOLEAN, v \in IntVals}
    [] ty = "Bool" -> {[nul |-> n, i |-> v, s |-> << >>] : n \in BOOLEAN, v \in BoolVals}
    [] OTHER       -> {[nul |-> n, i |-> 0, s |-> v] : n \in BOOLEAN, v \in strs}

\* one fixed non-NULL cell and one NULL cell per type
RestCells(ty) ==
  CASE ty = "Int"  -> {[nul |-> n, i |-> 0, s |-> << >>] : n \in BOOLEAN}
    [] ty = "Bool" -> {[nul |-> n, i |-> 1, s |-> << >>] : n \in BOOLEAN}
    [] OTHER       -> {[nul |-> n, i |-> 0, s |-> <<Chr.a>>] : n \in BOOLEAN}

\* rows of tbl: the columns in idxs range over all their cells, the others over RestCells
RECURSIVE RowsUpTo(_, _, _, _)
RowsUpTo(tbl, n, idxs, strs) ==
  IF n = 0 THEN {<< >>}
  ELSE {Append(row, cell) :
          row \in RowsUpTo(tbl, n - 1, idxs, strs),
          cell \in (IF n \in idxs THEN Cells(Cols(tbl)[n].ty, strs)
                    ELSE RestCells(Cols(tbl)[n].ty))}

RowsVarying(tbl, idxs, strs) == RowsUpTo(tbl, Len(Cols(tbl)), idxs, strs)

\* ---------------------------------------------------------------- state
VARIABLES
  pq,      \* predicate under test: [mode, e, ltp, rtp]
  pcomp,   \* what compiling it returned: [err, p]; err = "pending" before
  prows,   \* the row(s) the closure was last called on
  pout     \* what that call returned: "none", "true", "false"

VARIABLES
  heap,    \* per table, the slots of its data page: [used, row]
  index,   \* per table and column, the entries [key, rid] of the column's index
  stmt,    \* the SELECT statement under execution
  sres,    \* what select returned: [err, cols, data, final, one_results, cross]
  dpc,     \* where the running DELETE is: "idle", "get_ti", "fk", "compile", "filter",
           \* "scan", "index", "dealloc", then "done" (Ok) or "failed" (Err)
  dx,      \* its locals: [stmt, preds, cand, scan, col, k, pre, ret]
  del,     \* the Rids the scan collected, in visiting order
  derr     \* what the last DELETE returned: "" before any, "Ok", or the error

predVars == <<pq, pcomp, prows, pout>>
dbVars == <<heap, index>>
selVars == <<stmt, sres>>
delVars == <<dpc, dx, del, derr>>
vars == <<pq, pcomp, prows, pout, heap, index, stmt, sres, dpc, dx, del, derr>>

Pending == [err |-> "pending", p |-> NoPred]
NoQuery == [mode |-> "none", e |-> ExprNull(ColRef("", ""), FALSE), ltp |-> "", rtp |-> ""]
B2S(bool) == IF bool THEN "true" ELSE "false"

TableSet == {Tables[k] : k \in 1..Len(Tables)}
\* the index entries of every indexed column, as the heap determines them
IndexAll(slots) ==
  [tbl \in TableSet |->
     [c \in 1..Len(Cols(tbl)) |-> IF Cols(tbl)[c].index THEN IndexOf(slots[tbl], c) ELSE {}]]
EmptyHeap == [tbl \in TableSet |-> << >>]

Snapshot(slots, idxs) == [heap |-> slots, index |-> idxs]
NoDx == [stmt |-> DeleteStmt("", << >>), preds |-> << >>, cand |-> << >>,
         scan |-> 0, col |-> 0, k |-> 0, pre |-> Snapshot(EmptyHeap, IndexAll(EmptyHeap)),
         ret |-> ""]

PredIdle == pq = NoQuery /\ pcomp = Pending /\ prows = << >> /\ pout = "none"
DbIdle == heap = EmptyHeap /\ index = IndexAll(EmptyHeap)
SelIdle == stmt = NoStmt /\ sres = SelErr("pending")
DelIdle == dpc = "idle" /\ dx = NoDx /\ del = << >> /\ derr = ""

\* ---------------------------------------------------------------- SpecPred
LikePats ==
  StrsUpTo({Chr.a, Chr.b, Chr.pct, Chr.und, Chr.dot}, 2)
  \cup { <<Chr.a, Chr.b, Chr.und, Chr.d, Chr.pct>>,
         <<Chr.pct, Chr.b, Chr.pct>>,
         <<Chr.a, Chr.pct, Chr.d>>,
         <<Chr.und, Chr.und, Chr.und>> }

OneQ(e, tp) == [mode |-> "one", e |-> e, ltp |-> tp, rtp |-> tp]
CrossQ(e, ltp, rtp) == [mode |-> "cross", e |-> e, ltp |-> ltp, rtp |-> rtp]

PredQueries ==
  {OneQ(ExprCmp(op, ColRef("", "a"), AtomLit(LitInt(v))), "t") : op \in CmpOp, v \in IntVals}
  \cup {OneQ(ExprCmp(op, ColRef("", "d"), AtomLit(LitBool(v))), "t") : op \in CmpOp, v \in BoolVals}
  \cup {OneQ(ExprCmp(op, ColRef("", "c"), AtomLit(LitStr(v))), "t") : op \in CmpOp, v \in CmpStrs}
  \cup {OneQ(ExprCmp(op, ColRef("", "a"), AtomColRef(ColRef("", "b"))), "t") : op \in CmpOp}
  \cup {OneQ(ExprCmp(op, ColRef("", "a"), AtomLit(lit)), "t") :
          op \in CmpOp, lit \in {LitNull, LitStr(<<Chr.a>>), LitFloat(1)}}
  \cup {OneQ(ExprCmp(op, ColRef("", "a"), AtomColRef(ColRef("", cn))), "t") :
          op \in {"Eq"}, cn \in {"c", "d", "zz"}}
  \cup {OneQ(ExprNull(ColRef("", cn), null), "t") : cn \in {"a", "zz"}, null \in BOOLEAN}
  \cup {OneQ(ExprLike(ColRef("", cn), pat), "t") : cn \in {"c"}, pat \in LikePats}
  \cup {OneQ(ExprLike(ColRef("", "a"), <<Chr.a>>), "t")}
  \cup {CrossQ(ExprCmp(op, ColRef("t", "a"), AtomColRef(ColRef("u", "x"))), "t", "u") : op \in CmpOp}
  \cup {CrossQ(ExprCmp(op, ColRef("u", "c"), AtomColRef(ColRef("t", "c"))), "u", "t") : op \in CmpOp}
  \cup {CrossQ(ExprCmp(op, ColRef("t", "a"), AtomColRef(ColRef("u", "c"))), "t", "u") : op \in CmpOp}

\* the columns a query reads in its left and right table
LIdxs(q) == {get_ci(q.ltp, q.e.l.col)} \cup
            (IF q.mode = "one" /\ has_rhs_col(q.e) THEN {get_ci(q.ltp, q.e.r.cr.col)} ELSE {})
RIdxs(q) == {get_ci(q.rtp, q.e.r.cr.col)}
QStrs(q) == IF q.e.k = "Like" THEN LikeStrs ELSE CmpStrs

PredInit ==
  /\ pq \in PredQueries
  /\ pcomp = Pending
  /\ prows = << >>
  /\ pout = "none"
  /\ DbIdle /\ SelIdle /\ DelIdle

CompileOne ==
  /\ pq.mode = "one"
  /\ pcomp = Pending
  /\ pcomp' = one_predicate(pq.e, pq.ltp)
  /\ UNCHANGED <<pq, prows, pout, heap, index, stmt, sres, dpc, dx, del, derr>>

CompileCross ==
  /\ pq.mode = "cross"
  /\ pcomp = Pending
  /\ pcomp' = cross_predicate(pq.e.op, pq.e.l.col, pq.e.r.cr.col, pq.ltp, pq.rtp)
  /\ UNCHANGED <<pq, prows, pout, heap, index, stmt, sres, dpc, dx, del, derr>>

EvalOne ==
  /\ pq.mode = "one"
  /\ pcomp.err = ""
  /\ pout = "none"
  /\ \E row \in RowsVarying(pq.ltp, LIdxs(pq), QStrs(pq)) :
       /\ prows' = <<row>>
       /\ pout' = B2S(ApplyOne(pcomp.p, row))
  /\ UNCHANGED <<pq, pcomp, heap, index, stmt, sres, dpc, dx, del, derr>>

EvalCross ==
  /\ pq.mode = "cross"
  /\ pcomp.err = ""
  /\ pout = "none"
  /\ \E lrow \in RowsVarying(pq.ltp, LIdxs(pq), CmpStrs),
        rrow \in RowsVarying(pq.rtp, RIdxs(pq), CmpStrs) :
       /\ prows' = <<lrow, rrow>>
       /\ pout' = B2S(ApplyCross(pcomp.p, lrow, rrow))
  /\ UNCHANGED <<pq, pcomp, heap, index, stmt, sres, dpc, dx, del, derr>>

PredNext == CompileOne \/ CompileCross \/ EvalOne \/ EvalCross

SpecPred == PredInit /\ [][PredNext]_vars

\* ---------------------------------------------------------------- SpecJoin, SpecAgg
\* all sequences over set of length at most n
SeqsUpTo(set, n) == UNION {[1..m -> set] : m \in 0..n}

DefaultCell(ty) ==
  CASE ty = "Int"  -> [nul |-> FALSE, i |-> 0, s |-> << >>]
    [] ty = "Bool" -> [nul |-> FALSE, i |-> 1, s |-> << >>]
    [] ty = "Date" -> [nul |-> FALSE, i |-> 20200101, s |-> << >>]
    [] OTHER       -> [nul |-> FALSE, i |-> 0, s |-> <<Chr.a>>]

\* rows of tbl whose first column is one of cells, the other columns default
PoolRows(tbl, cells) ==
  {[k \in 1..Len(Cols(tbl)) |-> IF k = 1 THEN cell ELSE DefaultCell(Cols(tbl)[k].ty)] :
     cell \in cells}

IntCell(nul, v) == [nul |-> nul, i |-> v, s |-> << >>]
JoinCells == {IntCell(TRUE, 1), IntCell(FALSE, 0), IntCell(FALSE, 1)}
UsedSlots(tbl, cells, n) ==
  {[k \in DOMAIN rows |-> Slot(TRUE, rows[k])] : rows \in SeqsUpTo(PoolRows(tbl, cells), n)}
WRow(cell) == CHOOSE row \in PoolRows("w", {cell}) : TRUE
WHeaps == { << >>,
            << Slot(TRUE, WRow(IntCell(FALSE, 0))) >>,
            << Slot(FALSE, WRow(IntCell(FALSE, 0))), Slot(TRUE, WRow(IntCell(FALSE, 1))) >>,
            << Slot(TRUE, WRow(IntCell(TRUE, 0))), Slot(TRUE, WRow(IntCell(FALSE, 1))) >> }

JoinHeaps ==
  {[tbl \in TableSet |-> CASE tbl = "t" -> ht [] tbl = "u" -> hu [] tbl = "w" -> hw
                                   [] OTHER -> << >>] :
     ht \in UsedSlots("t", JoinCells, MaxRows),
     hu \in UsedSlots("u", JoinCells, MaxRows),
     hw \in WHeaps}

CrossE(op, lt, lc, rt, rc) == ExprCmp(op, ColRef(lt, lc), AtomColRef(ColRef(rt, rc)))
JoinExprs ==
  { CrossE("Ne", "t", "a", "u", "x"), CrossE("Eq", "u", "x", "t", "a"),
    CrossE("Gt", "u", "x", "w", "y"), CrossE("Ne", "w", "y", "t", "a"),
    ExprCmp("Lt", ColRef("t", "a"), AtomLit(LitInt(1))),
    ExprNull(ColRef("", "x"), FALSE) }
JoinStmts ==
  {SelectStmt(TRUE, << >>, tables, where) :
     tables \in {<<"t", "u">>, <<"t", "u", "w">>}, where \in SeqsUpTo(JoinExprs, 2)}

JoinInit ==
  /\ heap \in JoinHeaps
  /\ index = IndexAll(heap)
  /\ stmt \in JoinStmts
  /\ sres = SelErr("pending")
  /\ PredIdle /\ DelIdle

\* one SELECT statement: select(s, db)
Select ==
  /\ sres.err = "pending"
  /\ stmt # NoStmt
  /\ sres' = select(stmt, heap, index)
  /\ UNCHANGED <<pq, pcomp, prows, pout, heap, index, stmt, dpc, dx, del, derr>>

SelNext == Select

SpecJoin == JoinInit /\ [][SelNext]_vars

\* rows of t whose columns a and d range over cells, b and c default
AggRowsT ==
  {[k \in 1..Len(Cols("t")) |->
      CASE k = 1 -> ca [] k = 4 -> cd [] OTHER -> DefaultCell(Cols("t")[k].ty)] :
     ca \in {IntCell(TRUE, 1)} \cup {IntCell(FALSE, v) : v \in IntVals},
     cd \in {IntCell(TRUE, 1), IntCell(FALSE, 0), IntCell(FALSE, 1)}}
URow(cell) == CHOOSE row \in PoolRows("u", {cell}) : TRUE
AggHeaps ==
  {[tbl \in TableSet |-> CASE tbl = "t" -> ht [] tbl = "u" -> hu [] OTHER -> << >>] :
     ht \in {[k \in DOMAIN rows |-> Slot(TRUE, rows[k])] : rows \in SeqsUpTo(AggRowsT, MaxRows)},
     hu \in { << Slot(TRUE, URow(IntCell(FALSE, 1))) >>,
              << Slot(TRUE, URow(IntCell(TRUE, 1))), Slot(TRUE, URow(IntCell(FALSE, 0))) >> }}

AggItems ==
  { Agg("CountAll", ColRef("", "")), Agg("Count", ColRef("", "a")), Agg("Count", ColRef("", "d")),
    Agg("Sum", ColRef("", "a")), Agg("Avg", ColRef("", "a")),
    Agg("Sum", ColRef("", "d")), Agg("Avg", ColRef("t", "d")),
    Agg("Min", ColRef("", "a")), Agg("Max", ColRef("", "a")),
    Agg("None", ColRef("", "a")), Agg("None", ColRef("", "d")),
    Agg("None", ColRef("u", "x")), Agg("Count", ColRef("u", "x")), Agg("Sum", ColRef("", "c")) }
PairItems ==
  { Agg("CountAll", ColRef("", "")), Agg("Count", ColRef("", "a")),
    Agg("None", ColRef("", "a")), Agg("None", ColRef("t", "d")),
    Agg("None", ColRef("u", "x")), Agg("Sum", ColRef("u", "x")) }
\* select lists: every single item, pairs, and a few lists of three
AggLists ==
  {<<item>> : item \in AggItems}
  \cup {<<p, q>> : p \in PairItems, q \in PairItems}
  \cup { << Agg("None", ColRef("u", "x")), Agg("None", ColRef("", "a")), Agg("None", ColRef("u", "x")) >>,
         << Agg("CountAll", ColRef("", "")), Agg("None", ColRef("", "a")), Agg("Count", ColRef("", "a")) >>,
         << Agg("Sum", ColRef("u", "x")), Agg("Avg", ColRef("", "a")), Agg("CountAll", ColRef("", "")) >> }
AggStmts ==
  {SelectStmt(FALSE, ops, tw[1], tw[2]) :
     ops \in AggLists,
     tw \in { << <<"t">>, << >> >>, << <<"t", "u">>, << >> >>,
              << <<"t", "u">>, << CrossE("Ne", "t", "a", "u", "x") >> >> }}
  \cup {SelectStmt(TRUE, << >>, <<"t", "u">>, << >>)}

AggInit ==
  /\ heap \in AggHeaps
  /\ index = IndexAll(heap)
  /\ stmt \in AggStmts
  /\ sres = SelErr("pending")
  /\ PredIdle /\ DelIdle

SpecAgg == AggInit /\ [][SelNext]_vars

\* ---------------------------------------------------------------- SpecOrder: the order of joined rows
\* t(a) = {1,2,3} and u(x) = {2,3,4}, one row per value, in this order
ExampleHeap ==
  [tbl \in TableSet |->
     CASE tbl = "t" -> [k \in 1..3 |-> Slot(TRUE, CHOOSE row \in PoolRows("t", {IntCell(FALSE, k)}) : TRUE)]
       [] tbl = "u" -> [k \in 1..3 |-> Slot(TRUE, CHOOSE row \in PoolRows("u", {IntCell(FALSE, k + 1)}) : TRUE)]
       [] OTHER     -> << >>]
\* select t.a, u.x from t, u where t.a = u.x
ExampleStmt ==
  SelectStmt(FALSE, <<Agg("None", ColRef("t", "a")), Agg("None", ColRef("u", "x"))>>,
             <<"t", "u">>, <<CrossE("Eq", "t", "a", "u", "x")>>)

\* t holds up to three rows with a in 1..3 in any order, u the rows of the
\* example, forwards or backwards, or none
OrderHeaps ==
  {[ExampleHeap EXCEPT !["t"] = ht, !["u"] = hu] :
     ht \in UsedSlots("t", {IntCell(FALSE, k) : k \in 1..3}, 3),
     hu \in {ExampleHeap["u"], [k \in 1..3 |-> ExampleHeap["u"][4 - k]], << >>}}

OrderStmts ==
  {[ExampleStmt EXCEPT !.tables = tables, !.where = where] :
     tables \in {<<"t", "u">>, <<"u", "t">>},
     where \in {<<CrossE("Eq", "t", "a", "u", "x")>>,
                <<CrossE("Eq", "t", "a", "u", "x"), ExprCmp("Lt", ColRef("t", "a"), AtomLit(LitInt(3)))>>,
                <<ExprCmp("Lt", ColRef("t", "a"), AtomLit(LitInt(3)))>>,
                << >>}}

OrderInit ==
  /\ heap \in OrderHeaps
  /\ index = IndexAll(heap)
  /\ stmt \in OrderStmts
  /\ sres = SelErr("pending")
  /\ PredIdle /\ DelIdle

SpecOrder == OrderInit /\ [][SelNext]_vars

\* ---------------------------------------------------------------- SpecResolve: column resolution
\* every table holds a row whose columns are all NULL and a row with none NULL
NullRow(tbl) == [c \in 1..Len(Cols(tbl)) |-> [DefaultCell(Cols(tbl)[c].ty) EXCEPT !.nul = TRUE]]
FullRow(tbl) == [c \in 1..Len(Cols(tbl)) |-> DefaultCell(Cols(tbl)[c].ty)]
ResolveHeaps ==
  {[tbl \in TableSet |-> rows[tbl]] :
     rows \in {[tbl \in TableSet |-> <<Slot(TRUE, NullRow(tbl)), Slot(TRUE, FullRow(tbl))>>],
               [tbl \in TableSet |-> <<Slot(TRUE, FullRow(tbl)), Slot(FALSE, FullRow(tbl)),
                                       Slot(TRUE, NullRow(tbl))>>]}}

\* FROM lists of one to three tables, also with an unknown or a repeated table
FromLists ==
  {tables \in SeqsUpTo(TableSet, 3) :
     tables # << >> /\ \A m, n \in 1..Len(tables) : tables[m] = tables[n] => m = n}
  \cup {<<"t", "zz">>, <<"u", "t", "u">>}

ResolveRefs == {ColRef(q, c) : q \in {"", "t", "u", "w", "zz"},
                              c \in {"a", "c", "x", "y", "e", "zz"}}

\* the name stands in the select list, or in the WHERE clause of a select *
ResolveStmts ==
  {SelectStmt(FALSE, <<Agg("None", cr)>>, tables, << >>) :
     cr \in ResolveRefs, tables \in FromLists}
  \cup {SelectStmt(TRUE, << >>, tables, <<ExprNull(cr, FALSE)>>) :
          cr \in ResolveRefs, tables \in FromLists}

ResolveInit ==
  /\ heap \in ResolveHeaps
  /\ index = IndexAll(heap)
  /\ stmt \in ResolveStmts
  /\ sres = SelErr("pending")
  /\ PredIdle /\ DelIdle

SpecResolve == ResolveInit /\ [][SelNext]_vars

\* ---------------------------------------------------------------- Spec: INSERT and DELETE
\* rows of t whose indexed columns a and c range over a few cells
DelRowsT ==
  {[k \in 1..Len(Cols("t")) |->
      CASE k = 1 -> ca [] k = 3 -> cc [] OTHER -> DefaultCell(Cols("t")[k].ty)] :
     ca \in JoinCells,
     cc \in {[nul |-> TRUE, i |-> 0, s |-> <<Chr.a>>], [nul |-> FALSE, i |-> 0, s |-> <<Chr.a>>],
             [nul |-> FALSE, i |-> 0, s |-> <<Chr.b>>]}}

DelWheres ==
  { << >>,
    << ExprCmp("Lt", ColRef("", "a"), AtomLit(LitInt(1))) >>,
    << ExprCmp("Ge", ColRef("", "a"), AtomLit(LitInt(0))) >>,
    << ExprCmp("Ne", ColRef("", "a"), AtomLit(LitInt(0))) >>,
    << ExprNull(ColRef("", "c"), TRUE) >>,
    << ExprLike(ColRef("", "c"), <<Chr.b>>), ExprNull(ColRef("", "a"), FALSE) >>,
    << ExprCmp("Lt", ColRef("", "c"), AtomLit(LitStr(<<Chr.b>>))) >>,
    << ExprCmp("Eq", ColRef("", "a"), AtomLit(LitNull)) >>,
    << ExprCmp("Eq", ColRef("", "zz"), AtomLit(LitInt(0))) >> }
DelStmts ==
  {DeleteStmt("t", where) : where \in DelWheres}
  \cup {DeleteStmt("w", << >>), DeleteStmt("zz", << >>)}

Init ==
  /\ heap = EmptyHeap
  /\ index = IndexAll(EmptyHeap)
  /\ DelIdle /\ PredIdle /\ SelIdle

\* INSERT of one row: a free slot (or a new one) is occupied and every index of
\* the table gets an entry for the row's non-NULL column
Insert(tbl, row) ==
  /\ dpc = "idle"
  /\ \E rid \in 1..MaxRows :
       /\ rid <= Len(heap[tbl]) + 1
       /\ rid <= Len(heap[tbl]) => ~heap[tbl][rid].used
       /\ heap' = [heap EXCEPT ![tbl] =
                     IF rid <= Len(@) THEN [@ EXCEPT ![rid] = Slot(TRUE, row)]
                     ELSE Append(@, Slot(TRUE, row))]
       /\ index' = [index EXCEPT ![tbl] =
                      [c \in 1..Len(Cols(tbl)) |->
                         IF Cols(tbl)[c].index /\ ~row[c].nul
                         THEN @[c] \cup {[key |-> CellVal(row[c]), rid |-> rid]}
                         ELSE @[c]]]
  /\ UNCHANGED <<pq, pcomp, prows, pout, stmt, sres, dpc, dx, del, derr>>

\* delete is called: nothing is done yet; pre is the database as the call finds it
DeleteCall(d) ==
  /\ dpc = "idle"
  /\ dpc' = "get_ti"
  /\ dx' = [NoDx EXCEPT !.stmt = d, !.col = next_indexed(d.table, 0),
                        !.pre = Snapshot(heap, index)]
  /\ del' = << >>
  /\ UNCHANGED <<pq, pcomp, prows, pout, stmt, sres, heap, index, derr>>

\* db.get_ti(d.table)?
DeleteGetTi ==
  /\ dpc = "get_ti"
  /\ IF TableExists(dx.stmt.table)
     THEN dpc' = delete_phase_after("get_ti") /\ dx' = dx
     ELSE dpc' = "failed" /\ dx' = [dx EXCEPT !.ret = "NoSuchTable"]
  /\ UNCHANGED <<pq, pcomp, prows, pout, stmt, sres, heap, index, del, derr>>

\* if db.has_foreign_link_to(ti_id) { return Err(DeleteTableWithForeignLink) }
DeleteFk ==
  /\ dpc = "fk"
  /\ IF has_foreign_link_to(dx.stmt.table)
     THEN dpc' = "failed" /\ dx' = [dx EXCEPT !.ret = "DeleteTableWithForeignLink"]
     ELSE dpc' = delete_phase_after("fk") /\ dx' = dx
  /\ UNCHANGED <<pq, pcomp, prows, pout, stmt, sres, heap, index, del, derr>>

\* db.get_tp(d.table)? and one_where(&d.where_, d.table, tp)?
DeleteCompile ==
  /\ dpc = "compile"
  /\ LET cw == compile_where(dx.stmt.where, Len(dx.stmt.where), dx.stmt.table) IN
     IF cw.err = ""
     THEN dpc' = delete_phase_after("compile") /\ dx' = [dx EXCEPT !.preds = cw.preds]
     ELSE dpc' = "failed" /\ dx' = [dx EXCEPT !.ret = cw.err]
  /\ UNCHANGED <<pq, pcomp, prows, pout, stmt, sres, heap, index, del, derr>>

\* filter is entered: it picks the candidates it will visit
DeleteFilter ==
  /\ dpc = "filter"
  /\ dpc' = delete_phase_after("filter")
  /\ dx' = [dx EXCEPT !.cand = filter_cand(dx.stmt.table, dx.stmt.where,
                                           heap[dx.stmt.table], index[dx.stmt.table])]
  /\ UNCHANGED <<pq, pcomp, prows, pout, stmt, sres, heap, index, del, derr>>

\* filter visits one candidate and pushes it to del when the predicate holds
DeleteScan ==
  /\ dpc = "scan"
  /\ IF dx.scan < Len(dx.cand)
     THEN LET rid == dx.cand[dx.scan + 1] IN
          /\ del' = IF and_one(dx.preds, heap[dx.stmt.table][rid].row)
                    THEN Append(del, rid) ELSE del
          /\ dx' = [dx EXCEPT !.scan = @ + 1]
          /\ dpc' = dpc
     ELSE /\ dpc' = delete_phase_after("scan")
          /\ UNCHANGED <<dx, del>>
  /\ UNCHANGED <<pq, pcomp, prows, pout, stmt, sres, heap, index, derr>>

\* one turn of the loops over the indexed columns and over del
DeleteIndex ==
  /\ dpc = "index"
  /\ LET tbl == dx.stmt.table IN
     IF dx.col = 0
     THEN /\ dpc' = delete_phase_after("index")
          /\ dx' = [dx EXCEPT !.k = 0, !.col = next_indexed(tbl, 0)]
          /\ index' = index
     ELSE IF dx.k < Len(del)
     THEN LET rid == del[dx.k + 1] IN
          /\ index' = [index EXCEPT ![tbl][dx.col] =
                         delete_entry(@, heap[tbl][rid].row, dx.col, rid)]
          /\ dx' = [dx EXCEPT !.k = @ + 1]
          /\ dpc' = dpc
     ELSE /\ dx' = [dx EXCEPT !.k = 0, !.col = next_indexed(tbl, dx.col)]
          /\ UNCHANGED <<index, dpc>>
  /\ UNCHANGED <<pq, pcomp, prows, pout, stmt, sres, heap, del, derr>>

\* one turn of the loop that deallocates the slots of del
DeleteDealloc ==
  /\ dpc = "dealloc"
  /\ IF dx.k < Len(del)
     THEN /\ heap' = [heap EXCEPT ![dx.stmt.table] = deallocate_data_slot(@, del[dx.k + 1])]
          /\ dx' = [dx EXCEPT !.k = @ + 1]
          /\ dpc' = dpc
     ELSE /\ dpc' = delete_phase_after("dealloc")
          /\ dx' = [dx EXCEPT !.k = 0]
          /\ heap' = heap
  /\ UNCHANGED <<pq, pcomp, prows, pout, stmt, sres, index, del, derr>>

\* delete returns: Ok(()) after the last loop, or the error of the step that failed
DeleteReturn ==
  /\ dpc \in {"done", "failed"}
  /\ dpc' = "idle"
  /\ dx' = NoDx
  /\ del' = << >>
  /\ derr' = IF dpc = "done" THEN "Ok" ELSE dx.ret
  /\ UNCHANGED <<pq, pcomp, prows, pout, stmt, sres, heap, index>>

Next ==
  \/ \E row \in DelRowsT : Insert("t", row)
  \/ \E d \in DelStmts : DeleteCall(d)
  \/ DeleteGetTi
  \/ DeleteFk
  \/ DeleteCompile
  \/ DeleteFilter
  \/ DeleteScan
  \/ DeleteIndex
  \/ DeleteDealloc
  \/ DeleteReturn

Spec == Init /\ [][Next]_vars

\* ---------------------------------------------------------------- SpecDelete: DELETE and its error exits
\* "2020-02-30" (no such day) and "2020-2-29"
BadDate  == <<50, 48, 50, 48, 45, 48, 50, 45, 51, 48>>
GoodDate == <<50, 48, 50, 48, 45, 50, 45, 50, 57>>

VHeaps == { << >>, << Slot(TRUE, <<[nul |-> FALSE, i |-> 20200101, s |-> << >>]>>) >> }

ErrHeaps ==
  {[tbl \in TableSet |-> CASE tbl = "t" -> ht [] tbl = "w" -> hw [] tbl = "v" -> hv
                                   [] OTHER -> << >>] :
     ht \in UsedSlots("t", JoinCells, MaxRows),
     hw \in {<< >>, << Slot(TRUE, WRow(IntCell(FALSE, 0))) >>},
     hv \in VHeaps}

ErrStmts ==
  { DeleteStmt("t", << >>),
    DeleteStmt("t", << ExprCmp("Lt", ColRef("", "a"), AtomLit(LitInt(1))) >>),
    DeleteStmt("t", << ExprCmp("Eq", ColRef("", "zz"), AtomLit(LitInt(0))) >>),
    DeleteStmt("t", << ExprCmp("Lt", ColRef("", "a"), AtomLit(LitInt(1))),
                       ExprCmp("Eq", ColRef("", "a"), AtomLit(LitNull)) >>),
    DeleteStmt("t", << ExprCmp("Eq", ColRef("", "a"), AtomLit(LitStr(<<Chr.a>>))) >>),
    DeleteStmt("t", << ExprCmp("Eq", ColRef("", "a"), AtomColRef(ColRef("", "c"))) >>),
    DeleteStmt("t", << ExprLike(ColRef("", "a"), <<Chr.a, Chr.pct>>) >>),
    DeleteStmt("v", << ExprCmp("Lt", ColRef("", "e"), AtomLit(LitStr(BadDate))) >>),
    DeleteStmt("v", << ExprCmp("Lt", ColRef("", "e"), AtomLit(LitStr(GoodDate))) >>),
    DeleteStmt("w", << >>),
    DeleteStmt("w", << ExprCmp("Lt", ColRef("", "y"), AtomLit(LitInt(0))) >>),
    DeleteStmt("w", << ExprCmp("Eq", ColRef("", "zz"), AtomLit(LitInt(0))) >>),
    DeleteStmt("w", << ExprCmp("Eq", ColRef("", "y"), AtomLit(LitNull)) >>),
    DeleteStmt("zz", << >>) }

DeleteInit ==
  /\ heap \in ErrHeaps
  /\ index = IndexAll(heap)
  /\ DelIdle /\ PredIdle /\ SelIdle

DeleteNext ==
  \/ \E d \in ErrStmts : DeleteCall(d)
  \/ DeleteGetTi
  \/ DeleteFk
  \/ DeleteCompile
  \/ DeleteFilter
  \/ DeleteScan
  \/ DeleteIndex
  \/ DeleteDealloc
  \/ DeleteReturn

SpecDelete == DeleteInit /\ [][DeleteNext]_vars

\* ---------------------------------------------------------------- claims on predicates
\* the operands of the comparison that was evaluated
EvalCmp == pout # "none" /\ pq.e.k = "Cmp"
LCell == prows[1][pcomp.p.l_idx]
RCell == IF pq.mode = "cross" THEN prows[2][pcomp.p.r_idx] ELSE prows[1][pcomp.p.r_idx]
LOperandNull == LCell.nul
ROperandNull == pcomp.p.kind # "lit" /\ RCell.nul
ROperand == IF pcomp.p.kind = "lit" THEN pcomp.p.lit ELSE CellVal(RCell)

\* C1: on non-NULL operands v, w of matching type the compiled comparison
\* (column/literal, column/column, cross-table) returns true exactly when v op w
C1_OpDispatch ==
  (EvalCmp /\ ~LOperandNull /\ ~ROperandNull)
    => pout = B2S(OpHolds(pq.e.op, pcomp.p.ty, CellVal(LCell), ROperand))

\* C2: when a column operand of the evaluated row(s) has its NULL bit set, the
\* comparison returns false for Lt, Le, Ge, Gt, Eq and true for Ne, whatever
\* bytes the slot holds
C2_NullPropagation ==
  (EvalCmp /\ (LOperandNull \/ ROperandNull)) => pout = B2S(pq.e.op = "Ne")

C2_Witness ==
  /\ EvalCmp /\ pq.mode = "cross" /\ pq.e.op = "Ne"
  /\ ~LOperandNull /\ ROperandNull /\ RCell.i = 1 /\ LCell.i = 0
  /\ pout = "true"

\* C3: LIKE on a non-NULL string returns true iff the whole string matches the
\* pattern, '%' standing for any run and '_' for exactly one character
C3_LikeFullMatch ==
  (pout # "none" /\ pq.e.k = "Like" /\ ~LCell.nul)
    => pout = B2S(LikeFull(pq.e.pat, 1, LCell.s, 1))

\* ---------------------------------------------------------------- claims on SELECT
SelDone == sres.err = ""
NTables == Len(stmt.tables)
RowAt(pos, rid) == heap[stmt.tables[pos]][rid].row
\* the tuples (s_1, ..., s_k) with s_i in R_i
Product == {tup \in [1..NTables -> 0..MaxRows + 1] :
              \A m \in 1..NTables : \E n \in 1..Len(sres.one_results[m]) :
                 sres.one_results[m][n] = tup[m]}
Occurrences(tup) == Cardinality({n \in 1..Len(sres.final) : sres.final[n] = tup})
\* every pair l < r passes the predicates stored for (l, r) and for (r, l)
PairsHold(tup) ==
  \A l \in 1..NTables, r \in 1..NTables :
     l < r => /\ and_cross(sres.cross[(l - 1) * NTables + r], RowAt(l, tup[l]), RowAt(r, tup[r]))
              /\ and_cross(sres.cross[(r - 1) * NTables + l], RowAt(r, tup[r]), RowAt(l, tup[l]))

\* C4: the joined set holds a tuple of the per-table filtered rows exactly once
\* iff every pair l < r passes the cross-predicates of slot l*k+r on (s_l, s_r)
\* and those of slot r*k+l on (s_r, s_l), and holds nothing else; with no
\* cross-predicate it is the whole cross product
C4_JoinAcceptance ==
  SelDone =>
    /\ \A tup \in Product : Occurrences(tup) = (IF PairsHold(tup) THEN 1 ELSE 0)
    /\ \A n \in 1..Len(sres.final) : sres.final[n] \in Product
    /\ (\A m \in 1..(NTables * NTables) : sres.cross[m] = << >>)
         => Len(sres.final) = Cardinality(Product)

C4_Witness ==
  /\ SelDone /\ NTables = 3
  /\ sres.cross[2] # << >> /\ sres.cross[7] # << >>
  /\ Len(sres.final) >= 2
  /\ \E tup \in Product : ~PairsHold(tup)

\* the Col the i-th select item stands for
ItemCol(i) ==
  IF stmt.ops[i].op = "CountAll" THEN Col("CountAll", 0, 0)
  ELSE Col(stmt.ops[i].op, one_where(stmt.ops[i].col, stmt.tables).tbl,
           one_where(stmt.ops[i].col, stmt.tables).idx)
ColTy(col) == IF col.idx = 0 THEN "Int" ELSE Cols(stmt.tables[col.tbl])[col.idx].ty
HasAgg == \E i \in 1..Len(sres.cols) : sres.cols[i].op # "None"
\* the rows of the table of col in the joined row set, one per tuple
ColRows(col) == [n \in 1..Len(sres.final) |-> RowAt(col.tbl, sres.final[n][col.tbl])]
NotNullRows(col) == {n \in 1..Len(sres.final) : ~ColRows(col)[n][col.idx].nul}
RECURSIVE SumOver(_, _)
SumOver(col, ns) ==
  IF ns = {} THEN 0
  ELSE LET n == CHOOSE m \in ns : TRUE
       IN ColRows(col)[n][col.idx].i + SumOver(col, ns \ {n})

\* C5: the i-th column of the result (header and every row cell) is the i-th
\* item of the select list
C5_SelectListOrder ==
  (SelDone /\ ~stmt.star) =>
    /\ Len(sres.cols) = Len(stmt.ops)
    /\ \A i \in 1..Len(stmt.ops) :
         /\ sres.cols[i] = ItemCol(i)
         /\ HasAgg => sres.data[i] =
              agg_cell(ItemCol(i), ColTy(ItemCol(i)),
                       IF ItemCol(i).idx = 0 THEN << >> ELSE ColRows(ItemCol(i)), Len(sres.final))
         /\ ~HasAgg => \A n \in 1..Len(sres.final) :
              sres.data[(n - 1) * Len(stmt.ops) + i] =
                ptr2lit(ColRows(ItemCol(i))[n], ColTy(ItemCol(i)), ItemCol(i).idx)

\* C6: count(*) is the number of rows of the joined/filtered row set, NULL rows
\* included; count(c) the number of those rows whose c is not NULL; both 0 on
\* the empty set
C6_Count ==
  (SelDone /\ HasAgg) =>
    \A i \in 1..Len(sres.cols) :
       /\ sres.cols[i].op = "CountAll" => sres.data[i] = LitExt("Int", Len(sres.final), << >>, 1)
       /\ sres.cols[i].op = "Count" =>
            sres.data[i] = LitExt("Int", Cardinality(NotNullRows(sres.cols[i])), << >>, 1)

C6_Witness ==
  /\ SelDone /\ Len(sres.cols) = 2 /\ Len(sres.final) = 2
  /\ sres.cols[1].op = "CountAll" /\ sres.data[1].i = 2
  /\ sres.cols[2].op = "Count" /\ sres.data[2].i = 1
  /\ Len(stmt.tables) = 1

\* C7: sum(c) and avg(c) on an Int or Bool column skip the rows whose c is
\* NULL: with k >= 1 non-NULL rows of sum S, sum is S and avg is S / k; with
\* k = 0 both are NULL
C7_SumAvg ==
  (SelDone /\ HasAgg) =>
    \A i \in 1..Len(sres.cols) :
       sres.cols[i].op \in {"Sum", "Avg"} =>
         LET col == sres.cols[i]
             k   == Cardinality(NotNullRows(col))
             sum == SumOver(col, NotNullRows(col))
             out == sres.data[i]
         IN IF k = 0 THEN out = ExtNull
            ELSE /\ out.k = "F64" /\ out.den > 0
                 /\ col.op = "Sum" => (out.den = 1 /\ out.i = sum)
                 /\ col.op = "Avg" => out.i * k = sum * out.den

C7_Witness ==
  /\ SelDone /\ Len(sres.cols) = 1
  /\ sres.cols[1].op = "Avg" /\ ColTy(sres.cols[1]) = "Bool"
  /\ Cardinality(NotNullRows(sres.cols[1])) = 2
  /\ Len(sres.final) = 4
  /\ sres.data[1].k = "F64" /\ sres.data[1].i = 2 /\ sres.data[1].den = 2

\* C8: a select list with an aggregated and a plain item is rejected with
\* MixedSelect; one whose items are all aggregated, or all plain, never is
SomeAgg == \E i \in 1..Len(stmt.ops) : stmt.ops[i].op # "None"
SomePlain == \E i \in 1..Len(stmt.ops) : stmt.ops[i].op = "None"
C8_MixedSelect ==
  (sres.err # "pending" /\ ~stmt.star /\ tables_loop(stmt.tables, Len(stmt.tables)) = "")
    => ((sres.err = "MixedSelect") <=> (SomeAgg /\ SomePlain))

C8_Witness ==
  /\ sres.err = "MixedSelect" /\ Len(stmt.ops) = 3
  /\ stmt.ops[1].op = "CountAll" /\ stmt.ops[2].op = "None"

C8_WitnessAllAgg ==
  /\ SelDone /\ Len(stmt.ops) = 3 /\ ~SomePlain

\* ---------------------------------------------------------------- claims on DELETE
DTbl == dx.stmt.table
IndexedCols(tbl) == {c \in 1..Len(Cols(tbl)) : Cols(tbl)[c].index}
DelSet == {del[k] : k \in 1..Len(del)}
\* the entries of column c the rows of del have: none for a NULL column
DelEntries(c) ==
  {[key |-> CellVal(dx.pre.heap[DTbl][rid].row[c]), rid |-> rid] :
     rid \in {r \in DelSet : ~dx.pre.heap[DTbl][r].row[c].nul}}

\* C9: if every index of the table holds exactly the entries of the occupied
\* non-NULL rows before a DELETE, it does so again once the DELETE completes:
\* exactly the entries of the deleted rows with a non-NULL column are gone
C9_IndexConsistency ==
  (dpc = "done" /\ \A c \in IndexedCols(DTbl) :
                      dx.pre.index[DTbl][c] = IndexOf(dx.pre.heap[DTbl], c))
    => /\ \A c \in IndexedCols(DTbl) :
            /\ index[DTbl][c] = IndexOf(heap[DTbl], c)
            /\ index[DTbl][c] = dx.pre.index[DTbl][c] \ DelEntries(c)
       /\ \A rid \in 1..Len(heap[DTbl]) :
            heap[DTbl][rid].used = (dx.pre.heap[DTbl][rid].used /\ rid \notin DelSet)

C9_Witness ==
  /\ dpc = "done" /\ Len(del) = 1
  /\ heap[DTbl][del[1]].row[1].nul /\ ~heap[DTbl][del[1]].row[3].nul
  /\ index[DTbl][3] # dx.pre.index[DTbl][3]
  /\ index[DTbl][1] = dx.pre.index[DTbl][1] /\ index[DTbl][1] # {}
  /\ index[DTbl][3] # {}

\* no index entry names a slot that is not occupied
IndexSound ==
  \A tbl \in TableSet : \A c \in 1..Len(Cols(tbl)) : \A en \in index[tbl][c] :
     en.rid <= Len(heap[tbl]) /\ heap[tbl][en.rid].used
ScanComplete == dx.scan = Len(dx.cand)
NoEntryLeft ==
  \A c \in IndexedCols(DTbl) : \A en \in index[DTbl][c] : en.rid \notin DelSet

\* C10: within a DELETE no index entry is removed before the scan has visited
\* every candidate, no slot is deallocated before every index entry of every
\* collected row is removed, and so no index ever holds an entry of a freed slot
C10_DeleteOrdering ==
  [][ dpc # "idle" =>
        /\ (index' # index => ScanComplete)
        /\ (heap' # heap => NoEntryLeft)
        /\ IndexSound' ]_vars

C10_Witness ==
  /\ dpc = "dealloc" /\ Len(del) = 2 /\ dx.k = 1
  /\ ~heap[DTbl][del[1]].used /\ heap[DTbl][del[2]].used
  /\ \A k \in 1..2 : \E en \in dx.pre.index[DTbl][1] : en.rid = del[k]
  /\ IndexSound

\* ---------------------------------------------------------------- claims on the error exits of DELETE
DReturning == dpc \in {"done", "failed"}
DWhereErr == compile_where(dx.stmt.where, Len(dx.stmt.where), DTbl).err

\* C11: a DELETE on an existing table that a foreign key of another table
\* references returns DeleteTableWithForeignLink whatever its WHERE clause is,
\* and has then compiled no predicate and scanned nothing
C11_ForeignLinkFirst ==
  (DReturning /\ TableExists(DTbl) /\ has_foreign_link_to(DTbl))
    => /\ dpc = "failed" /\ dx.ret = "DeleteTableWithForeignLink"
       /\ dx.preds = << >> /\ dx.cand = << >> /\ dx.scan = 0 /\ del = << >>

C11_Witness ==
  /\ dpc = "failed" /\ dx.ret = "DeleteTableWithForeignLink"
  /\ dx.stmt.where # << >> /\ DWhereErr = "NoSuchCol"
  /\ heap[DTbl] # << >>

\* ---------------------------------------------------------------- claims on column resolution
\* the column name under resolution: the select item, or the left side of the WHERE clause
TheRef == IF stmt.star THEN stmt.where[1].l ELSE stmt.ops[1].col
Declares(tbl, col) == \E c \in 1..Len(Cols(tbl)) : Cols(tbl)[c].name = col
ColPos(tbl, col) == CHOOSE c \in 1..Len(Cols(tbl)) : Cols(tbl)[c].name = col
\* the positions in the FROM list of the tables that declare the name
Declaring == {k \in 1..NTables : Declares(stmt.tables[k], TheRef.col)}
InFrom(tbl) == \E k \in 1..NTables : stmt.tables[k] = tbl
ResolveDone ==
  /\ sres.err # "pending" /\ Len(stmt.ops) + Len(stmt.where) = 1
  /\ tables_loop(stmt.tables, NTables) = ""
\* the occupied rows of table k whose column c is not NULL, in heap order
NotNullRids(k, c) ==
  LET slots == heap[stmt.tables[k]]
  IN SelectSeq(HeapScan(slots, Len(slots)), LAMBDA rid : ~slots[rid].row[c].nul)
\* the statement ran with the name taken as the column of table k: the result
\* has that one column, or (WHERE c IS NOT NULL) table k alone was filtered on it
ResolvedTo(k) ==
  /\ sres.err = ""
  /\ ~stmt.star => sres.cols = <<Col("None", k, ColPos(stmt.tables[k], TheRef.col))>>
  /\ stmt.star =>
       \A m \in 1..NTables :
          sres.one_results[m] =
            IF m = k THEN NotNullRids(k, ColPos(stmt.tables[k], TheRef.col))
            ELSE HeapScan(heap[stmt.tables[m]], Len(heap[stmt.tables[m]]))

\* C12: an unqualified name gives AmbiguousCol iff two or more tables of the
\* FROM list declare it, resolves to the declaring table when exactly one
\* does, and gives NoSuchCol when none does; a qualified name whose table is
\* not in the FROM list gives NoSuchTable
C12_ColumnResolution ==
  ResolveDone =>
    /\ TheRef.table = "" =>
         /\ (sres.err = "AmbiguousCol") <=> (Cardinality(Declaring) >= 2)
         /\ (sres.err = "NoSuchCol") <=> (Declaring = {})
         /\ \A k \in Declaring : Declaring = {k} => ResolvedTo(k)
    /\ (TheRef.table # "" /\ ~InFrom(TheRef.table)) => sres.err = "NoSuchTable"

C12_Witness ==
  /\ ResolveDone /\ TheRef.table = "" /\ stmt.star
  /\ Cardinality(Declaring) = 3 /\ sres.err = "AmbiguousCol"

\* ---------------------------------------------------------------- claims on the order of joined rows
\* the position of row rid in R_m, the rows filter handed over for table m
PosIn(m, rid) == CHOOSE n \in 1..Len(sres.one_results[m]) : sres.one_results[m][n] = rid
\* tuple p comes before tuple q in the lexicographic order of the positions
LexBefore(p, q) ==
  \E m \in 1..NTables :
     /\ \A j \in 1..(m - 1) : p[j] = q[j]
     /\ PosIn(m, p[m]) < PosIn(m, q[m])
JoinOrdered ==
  \A n1, n2 \in 1..Len(sres.final) : n1 < n2 => LexBefore(sres.final[n1], sres.final[n2])
IsExample == heap = ExampleHeap /\ stmt = ExampleStmt
IntLit(v) == LitExt("Int", v, << >>, 1)

\* C13: the joined rows come in the lexicographic order of their rows'
\* positions in R_1, ..., R_k, and for t(a) = {1,2,3}, u(x) = {2,3,4} and
\* WHERE t.a = u.x the result is exactly (2,2) then (3,3)
C13_JoinOrder ==
  SelDone =>
    /\ JoinOrdered
    /\ IsExample => sres.data = <<IntLit(2), IntLit(2), IntLit(3), IntLit(3)>>

\* ---------------------------------------------------------------- claims on DELETE's errors and the database
\* C14: a DELETE that returns an error has removed no index entry and
\* deallocated no slot: the heap and every index are as the call found them,
\* and no row was collected for deletion
C14_ErrorMutatesNothing ==
  dpc = "failed" =>
    /\ dx.ret \notin {"", "Ok"}
    /\ heap = dx.pre.heap
    /\ index = dx.pre.index
    /\ del = << >>

\* the WHERE clause fails on its second expression, and its first one alone
\* matches an indexed row
C14_Witness ==
  /\ dpc = "failed" /\ dx.ret = "CmpOnNull" /\ DTbl = "t"
  /\ Len(dx.stmt.where) = 2
  /\ one_predicate(dx.stmt.where[1], DTbl).err = ""
  /\ \E rid \in 1..Len(heap[DTbl]) :
        /\ heap[DTbl][rid].used
        /\ ApplyOne(one_predicate(dx.stmt.where[1], DTbl).p, heap[DTbl][rid].row)
        /\ \E en \in index[DTbl][1] : en.rid = rid

====
